---- MODULE Spec2Model ----
(***************************************************************************)
(* Model of the AeroAgent airport-operations core:                         *)
(*   - the decentralized event-driven agent simulation                     *)
(*     (aiops/agents/core.py, aiops/agents/agents.py,                      *)
(*      aiops/orchestrator/sim.py), and                                    *)
(*   - the centralized runway/gate scheduler                               *)
(*     (aiops/optimization/schedulers.py).                                 *)
(*                                                                         *)
(* Minutes are integers.  Predicted delays and learned biases are floats   *)
(* in the program; here they live on a half-minute grid and are stored as  *)
(* integers counting half minutes (bias 2.5 min is stored as 5).           *)
(* Flight, runway and gate identifiers are the integers 1..n; the          *)
(* synthetic defaults "RWY-1" and "G-1" are the identifier 1.              *)
(***************************************************************************)
EXTENDS Integers, Sequences, FiniteSets, TLC

\* ------------------------------------------------------------------ bounds
NumFlights == 2      \* flights produced by ingestion
MaxRunways == 2      \* the simulation has 0..MaxRunways runways
OptRunways == 1      \* the scheduler is given 0 or OptRunways runways
MaxGates == 2        \* ingestion yields 0 or MaxGates gates
MaxTicks == 2        \* horizon_minutes is 5 * MaxTicks
MaxRuns == 2         \* calls of Simulation.run on one Simulation object
MaxEpisodes == 2     \* episodes of run_with_learning

SchedSet == {0, 3, 7}         \* scheduled minutes drawn by ingestion
DelaySet == {-3, 0, 1}        \* predicted delays, in half minutes
StepSet == {5, 10}            \* step_minutes arguments
SlotMinSet == {5, 10}         \* Config.time_slot_minutes values
SepMinSet == {10}             \* Config.runway_separation_minutes values
TurnMinSet == {15}            \* Config.gate_turnaround_minutes values
OptDelays == <<-3, 1>>        \* predicted delays, in half minutes, by turns
OptSchedSet == {2, 7, 16}     \* scheduled minutes of the scheduler's flights

VARIABLES
  mode,            \* which entry point runs: "run", "learn" or "opt"
  pc,              \* position inside that entry point
  data,            \* IngestedData: flights, runways, gates, weather
  delay_series,    \* flight_id -> predicted delay (half minutes)
  horizon_minutes, \* argument of run / run_with_learning
  step_minutes,    \* argument of run / run_with_learning
  log,             \* EventBus.log of the bus in use
  subscribers,     \* EventBus.subscribers: kind -> handlers in order
  agents,          \* the agent objects built so far, one record per run
  calls,           \* handler invocations made by publish, in order
  cur,             \* index in agents of the agents the loop is stepping
  t,               \* loop variable t of the tick loop
  i,               \* position of FlightAgent.step inside its window
  runs,            \* number of Simulation.run calls started
  metrics,         \* Simulation.metrics
  bias,            \* local bias of run_with_learning (carried map)
  ep,              \* loop variable ep of run_with_learning
  history,         \* local history of run_with_learning
  config,          \* the Config fields the scheduler is built from
  sched,           \* the RunwayGateScheduler object (<< >> before it is built)
  result           \* the ScheduleResult returned by optimize (<< >> before)

vars == <<mode, pc, data, delay_series, horizon_minutes, step_minutes, log,
          subscribers, agents, calls, cur, t, i, runs, metrics, bias, ep,
          history, config, sched, result>>

\* ------------------------------------------------------------ dictionaries
\* A Python dict keyed by flight id: a function on the set of its keys.
EmptyDict == << >>

Get(d, k, default) == IF k \in DOMAIN d THEN d[k] ELSE default

Put(d, k, v) == [x \in (DOMAIN d) \cup {k} |-> IF x = k THEN v ELSE d[x]]

\* update adding the values of shared keys instead of replacing them
\* (mutant)
UpdateSum(d, other) ==
  [x \in (DOMAIN d) \cup (DOMAIN other) |->
     IF x \in DOMAIN other
       THEN (IF x \in DOMAIN d THEN d[x] ELSE 0) + other[x]
       ELSE d[x]]

\* dict.update(other)
Update(d, other) ==
  [x \in (DOMAIN d) \cup (DOMAIN other) |->
     IF x \in DOMAIN other THEN other[x] ELSE d[x]]

\* The occupancy dicts keep insertion order (the assignment table is read
\* from them in that order): a sequence of [key, val] entries.
Has(d, k) == \E n \in DOMAIN d : d[n].key = k

DictSet(d, k, v) ==
  IF Has(d, k)
    THEN [n \in DOMAIN d |-> IF d[n].key = k THEN [key |-> k, val |-> v] ELSE d[n]]
    ELSE Append(d, [key |-> k, val |-> v])

\* Python int() of a float given in half minutes: truncation toward zero.
IntOf(h) == IF h >= 0 THEN h \div 2 ELSE -((-h) \div 2)

Max2(a, b) == IF a >= b THEN a ELSE b

Min2(a, b) == IF a <= b THEN a ELSE b

SetMax(S) == CHOOSE x \in S : \A y \in S : x >= y

SetMin(S) == CHOOSE x \in S : \A y \in S : x <= y

Abs(x) == IF x >= 0 THEN x ELSE -x

Range(seq) == {seq[n] : n \in DOMAIN seq}

\* ---------------------------------------------------------------- EventBus
Kinds == {"weather.update", "flight.request", "runway.assigned",
          "runway.deferred", "gate.assigned"}

NoSubscribers == [k \in Kinds |-> << >>]

\* EventBus.subscribe
Subscribe(subs, event_type, handler) ==
  [subs EXCEPT ![event_type] = Append(@, handler)]

RECURSIVE Publish(_, _)
RECURSIVE Dispatch(_, _, _, _, _)

\* on_deferred overwriting the bias with the last deferral (mutant)
OnDeferredReset(st, a, evt) ==
  [st EXCEPT !.agents[a].bias = Put(@, evt.flight_id, evt.delta_slots * 5)]

\* FlightAgent.on_deferred
OnDeferred(st, a, evt) ==
  LET fid == evt.flight_id
      delta_slots == evt.delta_slots
  IN [st EXCEPT !.agents[a].bias =
        Put(@, fid, Get(@, fid, 0) + delta_slots * 5)]

\* on_weather keeping the extra delay once it has rained (mutant)
OnWeatherSticky(st, a, evt) ==
  [st EXCEPT !.agents[a].wx = IF evt.rain = 1 THEN 2 ELSE @]

\* FlightAgent.on_weather
OnWeather(st, a, evt) ==
  [st EXCEPT !.agents[a].wx = IF evt.rain = 1 THEN 2 ELSE 0]

\* FirstFree without the occupancy test (mutant)
FirstFreeNoCheck(occupied, slot, ids) ==
  IF Len(ids) = 0 THEN << >> ELSE <<(<<slot, ids[1]>>)>>

\* FirstFree scanning runways before slots (mutant)
FirstFreeIdsFirst(occupied, slot, ids) ==
  LET n == Len(ids)
      cands == [c \in 1..(3 * n) |->
                  <<slot + ((c - 1) % 3), ids[((c - 1) \div 3) + 1]>>]
      free == {c \in DOMAIN cands : ~Has(occupied, cands[c])}
  IN IF free = {} THEN << >>
     ELSE <<cands[CHOOSE c \in free : \A d \in free : c <= d]>>

\* FirstFree looking ahead over four slots instead of three (mutant)
FirstFreeFourSlots(occupied, slot, ids) ==
  LET n == Len(ids)
      cands == [c \in 1..(4 * n) |->
                  <<slot + ((c - 1) \div n), ids[((c - 1) % n) + 1]>>]
      free == {c \in DOMAIN cands : ~Has(occupied, cands[c])}
  IN IF free = {} THEN << >>
     ELSE <<cands[CHOOSE c \in free : \A d \in free : c <= d]>>

\* The greedy search shared by RunwayAgent.on_request and
\* GateAgent.on_runway_assigned: slots slot, slot+1, slot+2 in order and,
\* inside a slot, the identifiers in list order; the first free pair, as a
\* one-element sequence, or the empty sequence when every pair is taken.
FirstFree(occupied, slot, ids) ==
  LET n == Len(ids)
      cands == [c \in 1..(3 * n) |->
                  <<slot + ((c - 1) \div n), ids[((c - 1) % n) + 1]>>]
      free == {c \in DOMAIN cands : ~Has(occupied, cands[c])}
  IN IF free = {} THEN << >>
     ELSE <<cands[CHOOSE c \in free : \A d \in free : c <= d]>>

\* GateAgent.on_runway_assigned
OnRunwayAssigned(st, a, evt) ==
  LET me == st.agents[a]
      flight_id == evt.flight_id
      slot == evt.slot
      hit == FirstFree(me.gocc, slot, me.gates)
  IN IF hit = << >> THEN st
     ELSE LET s == hit[1][1]
              g == hit[1][2]
              st1 == [st EXCEPT !.agents[a].gocc = DictSet(@, <<s, g>>, flight_id)]
              st2 == Publish(st1, [type |-> "gate.assigned", flight_id |-> flight_id,
                                   gate_id |-> g, slot |-> s, time_min |-> evt.time_min])
          IN [st2 EXCEPT !.agents[a].gdec = @ + 1]

\* on_request publishing runway.deferred for every assignment (mutant)
OnRequestDeferAlways(st, a, evt) ==
  LET me == st.agents[a]
      req_slot == evt.sched_min \div 5
      hit == FirstFree(me.rocc, req_slot, me.runways)
  IN IF hit = << >> THEN st
     ELSE LET s == hit[1][1]
              r == hit[1][2]
              st1 == [st EXCEPT !.agents[a].rocc = DictSet(@, <<s, r>>, evt.flight_id)]
              st2 == Publish(st1, [type |-> "runway.assigned", flight_id |-> evt.flight_id,
                                   runway_id |-> r, slot |-> s, time_min |-> evt.time_min])
              st3 == Publish(st2, [type |-> "runway.deferred",
                                   flight_id |-> evt.flight_id,
                                   delta_slots |-> s - req_slot,
                                   time_min |-> evt.time_min])
          IN [st3 EXCEPT !.agents[a].rdec = @ + 1]

\* on_request publishing runway.deferred before runway.assigned (mutant)
OnRequestDeferredFirst(st, a, evt) ==
  LET me == st.agents[a]
      req_slot == evt.sched_min \div 5
      hit == FirstFree(me.rocc, req_slot, me.runways)
  IN IF hit = << >> THEN st
     ELSE LET s == hit[1][1]
              r == hit[1][2]
              st1 == [st EXCEPT !.agents[a].rocc = DictSet(@, <<s, r>>, evt.flight_id)]
              st2 == IF s > req_slot
                       THEN Publish(st1, [type |-> "runway.deferred",
                                          flight_id |-> evt.flight_id,
                                          delta_slots |-> s - req_slot,
                                          time_min |-> evt.time_min])
                       ELSE st1
              st3 == Publish(st2, [type |-> "runway.assigned", flight_id |-> evt.flight_id,
                                   runway_id |-> r, slot |-> s, time_min |-> evt.time_min])
          IN [st3 EXCEPT !.agents[a].rdec = @ + 1]

\* RunwayAgent.on_request
OnRequest(st, a, evt) ==
  LET me == st.agents[a]
      req_slot == evt.sched_min \div 5
      hit == FirstFree(me.rocc, req_slot, me.runways)
  IN IF hit = << >> THEN st
     ELSE LET s == hit[1][1]
              r == hit[1][2]
              st1 == [st EXCEPT !.agents[a].rocc = DictSet(@, <<s, r>>, evt.flight_id)]
              st2 == Publish(st1, [type |-> "runway.assigned", flight_id |-> evt.flight_id,
                                   runway_id |-> r, slot |-> s, time_min |-> evt.time_min])
              st3 == IF s > req_slot
                       THEN Publish(st2, [type |-> "runway.deferred",
                                          flight_id |-> evt.flight_id,
                                          delta_slots |-> s - req_slot,
                                          time_min |-> evt.time_min])
                       ELSE st2
          IN [st3 EXCEPT !.agents[a].rdec = @ + 1]

\* handler(evt): the bound method h.fn of the agents of run h.inst
Handle(st, h, evt) ==
  CASE h.fn = "on_deferred" -> OnDeferred(st, h.inst, evt)
    [] h.fn = "on_weather" -> OnWeather(st, h.inst, evt)
    [] h.fn = "on_request" -> OnRequest(st, h.inst, evt)
    [] h.fn = "on_runway_assigned" -> OnRunwayAssigned(st, h.inst, evt)

\* The for loop of EventBus.publish from handler number n on.  Each
\* invocation is noted in calls with the log position ev of the event and the
\* length at of the log at the moment of the call.
Dispatch(st, handlers, n, evt, ev) ==
  IF n > Len(handlers) THEN st
  ELSE LET entered == [st EXCEPT !.calls =
                         Append(@, [fn |-> handlers[n].fn, inst |-> handlers[n].inst,
                                    ev |-> ev, at |-> Len(st.log)])]
       IN Dispatch(Handle(entered, handlers[n], evt), handlers, n + 1, evt, ev)

\* publish calling the handlers before logging the event (mutant)
PublishLogLast(st, evt) ==
  LET st1 == Dispatch(st, subscribers[evt.type], 1, evt, Len(st.log) + 1)
  IN [st1 EXCEPT !.log = Append(@, evt)]

\* EventBus.publish
Publish(st, evt) ==
  LET st1 == [st EXCEPT !.log = Append(@, evt)]
  IN Dispatch(st1, subscribers[evt.type], 1, evt, Len(st1.log))

\* ------------------------------------------------------------------ agents
\* WeatherAgent, FlightAgent, RunwayAgent and GateAgent built by one run,
\* kept in one record: decisions counters wdec, fdec, rdec, gdec,
\* FlightAgent.bias and wx_extra_delay_min (wx), and the occupied maps.
NewAgents(seed) ==
  [wdec |-> 0, fdec |-> 0, rdec |-> 0, gdec |-> 0,
   bias |-> seed, wx |-> 0,
   runways |-> data.runways, rocc |-> << >>,
   gates |-> IF Len(data.gates) > 0
               THEN [n \in DOMAIN data.gates |-> data.gates[n].gate_id]
               ELSE <<1>>,
   gocc |-> << >>]

\* The four constructors subscribe in this order.
SubscribeAgents(subs, a) ==
  LET s1 == Subscribe(subs, "runway.deferred", [fn |-> "on_deferred", inst |-> a])
      s2 == Subscribe(s1, "weather.update", [fn |-> "on_weather", inst |-> a])
      s3 == Subscribe(s2, "flight.request", [fn |-> "on_request", inst |-> a])
  IN Subscribe(s3, "runway.assigned", [fn |-> "on_runway_assigned", inst |-> a])

\* FlightAgent.step: the rows of flights scheduled in [t_min, t_min + 10)
Window(t_min) ==
  SelectSeq(data.flights, LAMBDA row : row.sched_min >= t_min /\ row.sched_min < t_min + 10)

\* FlightAgent.step: the requested minute of one row
ReqSched(row, me) ==
  LET base == row.sched_min + IntOf(Get(delay_series, row.flight_id, 0))
      b == IntOf(Get(me.bias, row.flight_id, 0))
  IN Max2(0, base + b + me.wx)

St == [log |-> log, agents |-> agents, calls |-> calls]

\* -------------------------------------------------------------------- Init
FlightRows(minutes) ==
  {f \in [1..NumFlights -> [flight_id : 1..NumFlights, sched_min : minutes,
                            aircraft : {"NARROW", "WIDE"}]] :
     /\ \A n \in 1..NumFlights : f[n].flight_id = n
     /\ \A n \in 1..(NumFlights - 1) : f[n].sched_min <= f[n + 1].sched_min}

GateRows(n) ==
  {g \in [1..n -> [gate_id : 1..n, compatible : {"NARROW", "WIDE"}]] :
     \A k \in 1..n : g[k].gate_id = k}

Idle ==
  /\ log = << >>
  /\ subscribers = NoSubscribers
  /\ agents = << >>
  /\ calls = << >>
  /\ cur = 0
  /\ t = 0
  /\ i = 1
  /\ runs = 0
  /\ metrics = [decisions |-> EmptyDict, num_events |-> 0, assignments |-> << >>]
  /\ bias = EmptyDict
  /\ ep = 0
  /\ history = << >>
  /\ sched = << >>
  /\ result = << >>

DefaultConfig ==
  [time_slot_minutes |-> 5, runway_separation_minutes |-> 5,
   gate_turnaround_minutes |-> 15, enable_runway_separation |-> FALSE,
   enable_gate_turnaround |-> FALSE]

\* Simulation(config) constructed, run or run_with_learning not yet called.
\* The simulation never reads the aircraft and compatibility columns: the
\* first flight is a WIDE aircraft and the gates are NARROW gates.
InitSim ==
  /\ mode \in {"run", "learn"}
  /\ pc = "init"
  /\ \E fl \in FlightRows(SchedSet), nr \in 0..MaxRunways, ng \in {0, MaxGates} :
       /\ \A n \in 1..NumFlights : fl[n].aircraft = IF n = 1 THEN "WIDE" ELSE "NARROW"
       /\ \E gt \in GateRows(ng), wx \in [1..2 -> {0, 1}] :
            /\ \A k \in 1..ng : gt[k].compatible = "NARROW"
            /\ data = [flights |-> fl, runways |-> [n \in 1..nr |-> n],
                       gates |-> gt, weather |-> wx]
  /\ \E d \in DelaySet : delay_series = [f \in 1..NumFlights |-> d]
  /\ horizon_minutes = 5 * MaxTicks
  /\ step_minutes \in StepSet
  /\ config \in {[DefaultConfig EXCEPT !.time_slot_minutes = m] : m \in SlotMinSet}
  /\ Idle

\* ----------------------------------------------------------------- actions
\* Simulation.run, up to the tick loop: agents are built on self.bus.
StartRun ==
  /\ mode = "run"
  /\ pc \in {"init", "done"}
  /\ runs < MaxRuns
  /\ runs' = runs + 1
  /\ agents' = Append(agents, NewAgents(EmptyDict))
  /\ cur' = Len(agents) + 1
  /\ subscribers' = SubscribeAgents(subscribers, Len(agents) + 1)
  /\ t' = 0
  /\ i' = 1
  /\ pc' = IF 0 < horizon_minutes THEN "weather" ELSE "aggregate"
  /\ UNCHANGED <<mode, data, delay_series, horizon_minutes, step_minutes, log,
                 calls, metrics, bias, ep, history,
                 config, sched, result>>

\* WeatherAgent.step(t)
WeatherStep ==
  /\ pc = "weather"
  /\ LET row_idx == Min2(Len(data.weather) - 1, t \div 5)
         wx == data.weather[row_idx + 1]
         st == Publish(St, [type |-> "weather.update", rain |-> wx, time_min |-> t])
     IN /\ log' = st.log
        /\ agents' = st.agents
        /\ calls' = st.calls
  /\ i' = 1
  /\ pc' = "flights"
  /\ UNCHANGED <<mode, data, delay_series, horizon_minutes, step_minutes,
                 subscribers, cur, t, runs, metrics, bias, ep, history,
                 config, sched, result>>

\* FlightAgent.step(t): one iteration of the loop over the window
FlightRequest ==
  /\ pc = "flights"
  /\ i <= Len(Window(t))
  /\ LET row == Window(t)[i]
         req == [type |-> "flight.request", flight_id |-> row.flight_id,
                 sched_min |-> ReqSched(row, agents[cur]), time_min |-> t]
         st == Publish(St, req)
     IN /\ log' = st.log
        /\ agents' = [st.agents EXCEPT ![cur].fdec = @ + 1]
        /\ calls' = st.calls
  /\ i' = i + 1
  /\ UNCHANGED <<mode, pc, data, delay_series, horizon_minutes, step_minutes,
                 subscribers, cur, t, runs, metrics, bias, ep, history,
                 config, sched, result>>

\* FlightAgent.step(t) returns and the tick loop advances
NextTick ==
  /\ pc = "flights"
  /\ i > Len(Window(t))
  /\ t' = t + step_minutes
  /\ i' = 1
  /\ pc' = IF t + step_minutes < horizon_minutes THEN "weather"
           ELSE IF mode = "run" THEN "aggregate" ELSE "merge"
  /\ UNCHANGED <<mode, data, delay_series, horizon_minutes, step_minutes, log,
                 subscribers, agents, calls, cur, runs, metrics, bias, ep, history,
                 config, sched, result>>

\* Simulation.run: aggregate results and return self.metrics
Aggregate ==
  /\ pc = "aggregate"
  /\ LET me == agents[cur]
     IN metrics' = [decisions |-> [a \in {"WeatherAgent", "FlightAgent", "RunwayAgent", "GateAgent"} |->
                                     CASE a = "WeatherAgent" -> me.wdec
                                       [] a = "FlightAgent" -> me.fdec
                                       [] a = "RunwayAgent" -> me.rdec
                                       [] a = "GateAgent" -> me.gdec],
                    num_events |-> Len(log),
                    assignments |-> [n \in DOMAIN me.rocc |->
                                       [flight_id |-> me.rocc[n].val,
                                        runway_id |-> me.rocc[n].key[2],
                                        slot |-> me.rocc[n].key[1]]]]
  /\ pc' = "done"
  /\ UNCHANGED <<mode, data, delay_series, horizon_minutes, step_minutes, log,
                 subscribers, agents, calls, cur, t, i, runs, bias, ep, history,
                 config, sched, result>>

\* run_with_learning: one pass of the episode loop up to the tick loop,
\* with a fresh EventBus and a FlightAgent seeded with dict(bias)
StartEpisode ==
  /\ mode = "learn"
  /\ pc \in {"init", "episode"}
  /\ ep < MaxEpisodes
  /\ log' = << >>
  /\ calls' = << >>
  /\ agents' = <<NewAgents(bias)>>
  /\ cur' = 1
  /\ subscribers' = SubscribeAgents(NoSubscribers, 1)
  /\ t' = 0
  /\ i' = 1
  /\ pc' = IF 0 < horizon_minutes THEN "weather" ELSE "merge"
  /\ UNCHANGED <<mode, data, delay_series, horizon_minutes, step_minutes, runs,
                 metrics, bias, ep, history,
                 config, sched, result>>

\* run_with_learning: bias.update(flights.bias) and history.append
EndEpisode ==
  /\ pc = "merge"
  /\ LET me == agents[cur]
         merged == Update(bias, me.bias)
     IN /\ bias' = merged
        /\ history' = Append(history,
             [episode |-> ep + 1,
              decisions |-> <<me.wdec, me.fdec, me.rdec, me.gdec>>,
              events |-> Len(log),
              assignments |-> Len(me.rocc)])
  /\ ep' = ep + 1
  /\ pc' = "episode"
  /\ UNCHANGED <<mode, data, delay_series, horizon_minutes, step_minutes, log,
                 subscribers, agents, calls, cur, t, i, runs, metrics,
                 config, sched, result>>

NextSim ==
  \/ StartRun
  \/ WeatherStep
  \/ FlightRequest
  \/ NextTick
  \/ Aggregate
  \/ StartEpisode
  \/ EndEpisode

SpecSim == InitSim /\ [][NextSim]_vars

\* ----------------------------------------------------- centralized scheduler

\* RunwayGateScheduler.__init__
NewScheduler(c) ==
  [slot_minutes |-> c.time_slot_minutes,
   runway_sep_slots |-> Max2(1, c.runway_separation_minutes \div c.time_slot_minutes),
   gate_turn_slots |-> Max2(1, c.gate_turnaround_minutes \div c.time_slot_minutes),
   enable_runway_sep |-> c.enable_runway_separation,
   enable_gate_turn |-> c.enable_gate_turnaround]

\* RunwayGateScheduler._time_to_slot
TimeToSlot(minute) == minute \div sched.slot_minutes

\* flights.index after reset_index, shifted to start at 1
FlightIdx == DOMAIN data.flights

\* the added column flights["slot"]
FlightSlot(f) == TimeToSlot(data.flights[f].sched_min)

\* min_slot without the clamp at 0 (mutant)
MinSlotNoClamp == SetMin({FlightSlot(f) : f \in FlightIdx}) - 1

MinSlot == Max2(0, SetMin({FlightSlot(f) : f \in FlightIdx}) - 1)

MaxSlot == SetMax({FlightSlot(f) : f \in FlightIdx}) + 1

RwyList == IF Len(data.runways) > 0 THEN data.runways ELSE <<1>>

GateList ==
  IF Len(data.gates) > 0
    THEN [n \in DOMAIN data.gates |-> data.gates[n].gate_id]
    ELSE <<1>>

\* compat.get(k, "NARROW")
CompatGet(k) ==
  IF \E n \in DOMAIN data.gates : data.gates[n].gate_id = k
    THEN data.gates[CHOOSE n \in DOMAIN data.gates : data.gates[n].gate_id = k].compatible
    ELSE "NARROW"

\* candidate slots of flight f: s-1, s, s+1 within [min_slot, max_slot]
CandSlots(f) ==
  {s \in {FlightSlot(f) - 1, FlightSlot(f), FlightSlot(f) + 1} :
     s >= MinSlot /\ s <= MaxSlot}

AllSlots == MinSlot..MaxSlot

\* the keys of the variable dicts x and g
XKeys == {v \in FlightIdx \X Range(RwyList) \X (MinSlot..MaxSlot) : v[3] \in CandSlots(v[1])}

GKeys == FlightIdx \X Range(GateList)

\* A solver assignment is given by the set X of x-variables at 1 and the
\* set G of g-variables at 1.

\* objective whose delay term grows with the displacement (mutant)
RECURSIVE SumCostScaled(_)
SumCostScaled(X) ==
  IF X = {} THEN 0
  ELSE LET v == CHOOSE w \in X : TRUE
       IN ((20 + Get(delay_series, data.flights[v[1]].flight_id, 0))
             * Abs(v[3] - FlightSlot(v[1])))
          + SumCostScaled(X \ {v})

\* objective, in twentieths: (abs(s - s_sched) + delay / 10) per chosen x
RECURSIVE SumCost(_)
SumCost(X) ==
  IF X = {} THEN 0
  ELSE LET v == CHOOSE w \in X : TRUE
       IN (20 * Abs(v[3] - FlightSlot(v[1]))
             + Get(delay_series, data.flights[v[1]].flight_id, 0))
          + SumCost(X \ {v})

Objective(X) == SumCost(X)

\* at most one runway slot per flight instead of exactly one (mutant)
OneRunwaySlotAtMost(S) == Cardinality(S) <= 1

\* "Each flight assigned to exactly one runway slot", for the x-variables S
\* of one flight that are at 1
OneRunwaySlot(S) == Cardinality(S) = 1

\* runway capacity: at most 1 per (runway, slot)
RunwayCapacity(X) ==
  \A r \in Range(RwyList), s \in AllSlots :
    Cardinality({v \in X : v[2] = r /\ v[3] = s}) <= 1

\* no separation constraints (mutant)
RunwaySeparationOff(X) == TRUE

\* runway separation, added when enable_runway_sep
RunwaySeparation(X) ==
  sched.enable_runway_sep =>
    \A r \in Range(RwyList), s \in AllSlots, d \in 1..sched.runway_sep_slots :
      (s + d) \in AllSlots =>
        Cardinality({v \in X : v[2] = r /\ v[3] = s})
          + Cardinality({v \in X : v[2] = r /\ v[3] = s + d}) <= 1

\* every gate counted as compatible (mutant)
CompatibleAny(f) == Range(GateList)

\* compatible_gates of flight f before the fallback
Compatible(f) ==
  LET aircraft == data.flights[f].aircraft
  IN {k \in Range(GateList) :
        CompatGet(k) = aircraft \/ (CompatGet(k) = "WIDE" /\ aircraft = "NARROW")}

\* compatible_gates without the fallback (mutant)
CompatibleGatesNoFallback(f) == Compatible(f)

\* compatible_gates of flight f after the fallback
CompatibleGates(f) ==
  IF Compatible(f) = {} THEN Range(GateList) ELSE Compatible(f)

\* one gate per flight among compatible_gates, the others forced to 0, for
\* the g-variables S of flight f that are at 1
OneGate(f, S) ==
  /\ Cardinality({v \in S : v[2] \in CompatibleGates(f)}) = 1
  /\ \A k \in Range(GateList) : k \notin CompatibleGates(f) => <<f, k>> \notin S

\* gate capacity per requested-slot bucket (always added)
GateCapacity(G) ==
  \A k \in Range(GateList), s \in AllSlots :
    Cardinality({v \in G : v[2] = k /\ FlightSlot(v[1]) = s}) <= 1

\* gate turnaround, added when enable_gate_turn
GateTurnaround(G) ==
  sched.enable_gate_turn =>
    \A k \in Range(GateList), s \in AllSlots, d \in 1..sched.gate_turn_slots :
      (s + d) \in AllSlots =>
        Cardinality({v \in G : v[2] = k /\ FlightSlot(v[1]) = s})
          + Cardinality({v \in G : v[2] = k /\ FlightSlot(v[1]) = s + d}) <= 1

\* the assignments of x (resp. g) meeting the per-flight constraints of
\* flights 1..n
RECURSIVE XPerFlight(_)
XPerFlight(n) ==
  IF n = 0 THEN {{}}
  ELSE {X \cup S : X \in XPerFlight(n - 1),
                   S \in {T \in SUBSET {v \in XKeys : v[1] = n} : OneRunwaySlot(T)}}

RECURSIVE GPerFlight(_)
GPerFlight(n) ==
  IF n = 0 THEN {{}}
  ELSE {G \cup S : G \in GPerFlight(n - 1),
                   S \in {T \in SUBSET {v \in GKeys : v[1] = n} : OneGate(n, T)}}

\* the feasible region of the model
XFeasible ==
  {X \in XPerFlight(Len(data.flights)) : RunwayCapacity(X) /\ RunwaySeparation(X)}

GFeasible ==
  {G \in GPerFlight(Len(data.flights)) : GateCapacity(G) /\ GateTurnaround(G)}

\* prob.solve: status 1 with an optimal assignment, or status -1 when the
\* model has none.  Which optimal assignment the solver returns is its
\* choice, and so are the variable values it leaves behind when the model
\* is infeasible.
SolverOutcomes ==
  LET xf == XFeasible
      gf == GFeasible
  IN IF xf = {} \/ gf = {}
       THEN {[status |-> -1, X |-> X, G |-> G] : X \in {{}, XKeys}, G \in {{}, GKeys}}
       ELSE LET cost == [X \in xf |-> Objective(X)]
                best == SetMin({cost[X] : X \in xf})
            IN {[status |-> 1, X |-> X, G |-> G] :
                  X \in {Y \in xf : cost[Y] = best}, G \in gf}

\* prob.solve with a solver that may also stop at a solution it has not
\* proved optimal: such a run ends with the status named "Feasible" (code 2
\* here) and an assignment that meets the constraints.
SolverOutcomesAny ==
  LET xf == XFeasible
      gf == GFeasible
  IN SolverOutcomes \cup {[status |-> 2, X |-> X, G |-> G] : X \in xf, G \in gf}

\* pulp.LpStatus[prob.status]: the status names of the library, and the
\* name "Feasible" that optimize accepts next to "Optimal", under a code
\* other than 1
LpStatus(status) ==
  CASE status = 1 -> "Optimal"
    [] status = 2 -> "Feasible"
    [] status = 0 -> "Not Solved"
    [] status = -1 -> "Infeasible"
    [] status = -2 -> "Unbounded"
    [] status = -3 -> "Undefined"

\* the extraction loops: rows in the order flights, runways, all_slots
RunwayRows(X) ==
  LET nr == Len(RwyList)
      ns == MaxSlot - MinSlot + 1
      loop == [n \in 1..(Len(data.flights) * nr * ns) |->
                 <<((n - 1) \div (nr * ns)) + 1,
                   RwyList[(((n - 1) \div ns) % nr) + 1],
                   MinSlot + ((n - 1) % ns)>>]
      hits == SelectSeq(loop, LAMBDA v : v \in XKeys /\ v \in X)
  IN [n \in DOMAIN hits |->
        [flight_id |-> data.flights[hits[n][1]].flight_id,
         runway_id |-> hits[n][2], slot |-> hits[n][3]]]

GateRowsOf(G) ==
  LET ng == Len(GateList)
      loop == [n \in 1..(Len(data.flights) * ng) |->
                 <<((n - 1) \div ng) + 1, GateList[((n - 1) % ng) + 1]>>]
      hits == SelectSeq(loop, LAMBDA v : v \in G)
  IN [n \in DOMAIN hits |->
        [flight_id |-> data.flights[hits[n][1]].flight_id, gate_id |-> hits[n][2]]]

\* taxiway conflict heuristic: pairs of rows sharing (runway_id, slot)
TaxiConflicts(rows) ==
  {[flight_id_a |-> rows[a].flight_id, flight_id_b |-> rows[b].flight_id,
    runway_id |-> rows[a].runway_id, slot |-> rows[a].slot] :
     <<a, b>> \in {p \in (DOMAIN rows) \X (DOMAIN rows) :
                     /\ p[1] < p[2]
                     /\ rows[p[1]].runway_id = rows[p[2]].runway_id
                     /\ rows[p[1]].slot = rows[p[2]].slot}}

\* the result with the extraction not guarded by the status (mutant)
ScheduleResultNoGuard(out) ==
  LET runway_rows == RunwayRows(out.X)
  IN [runway_assignments |-> runway_rows,
      gate_assignments |-> GateRowsOf(out.G),
      taxiway_conflicts |-> TaxiConflicts(runway_rows),
      objective_value |-> IF out.status = 1
                            THEN [inf |-> FALSE, x20 |-> Objective(out.X)]
                            ELSE [inf |-> TRUE, x20 |-> 0],
      status |-> LpStatus(out.status)]

\* The infinite objective float("inf") is [inf |-> TRUE]; a finite one
\* carries its value in twentieths.
ScheduleResult(out) ==
  LET status_str == LpStatus(out.status)
      solved == status_str \in {"Optimal", "Feasible"}
      runway_rows == IF solved THEN RunwayRows(out.X) ELSE << >>
      gate_rows == IF solved THEN GateRowsOf(out.G) ELSE << >>
  IN [runway_assignments |-> runway_rows,
      gate_assignments |-> gate_rows,
      taxiway_conflicts |-> TaxiConflicts(runway_rows),
      objective_value |-> IF out.status = 1
                            THEN [inf |-> FALSE, x20 |-> Objective(out.X)]
                            ELSE [inf |-> TRUE, x20 |-> 0],
      status |-> status_str]

\* AirportOpsPipeline(config) is about to be constructed
InitOpt ==
  /\ mode = "opt"
  /\ pc = "init"
  /\ \E fl \in FlightRows(OptSchedSet), nr \in {0, OptRunways}, ng \in {0, MaxGates} :
       \E gt \in GateRows(ng) :
         data = [flights |-> fl, runways |-> [n \in 1..nr |-> n],
                 gates |-> gt, weather |-> <<0>>]
  /\ delay_series = [f \in 1..NumFlights |-> OptDelays[((f - 1) % Len(OptDelays)) + 1]]
  /\ horizon_minutes = 0
  /\ step_minutes = 5
  /\ config \in [time_slot_minutes : SlotMinSet,
                 runway_separation_minutes : SepMinSet,
                 gate_turnaround_minutes : TurnMinSet,
                 enable_runway_separation : BOOLEAN,
                 enable_gate_turnaround : BOOLEAN]
  /\ Idle

\* AirportOpsPipeline.__init__ builds the scheduler from the config
BuildScheduler ==
  /\ mode = "opt"
  /\ pc = "init"
  /\ sched' = NewScheduler(config)
  /\ pc' = "built"
  /\ UNCHANGED <<mode, data, delay_series, horizon_minutes, step_minutes, log,
                 subscribers, agents, calls, cur, t, i, runs, metrics, bias, ep,
                 history, config, result>>

\* RunwayGateScheduler.optimize(flights, runways, gates, delay_minutes)
Optimize ==
  /\ pc = "built"
  /\ \E out \in SolverOutcomes : result' = ScheduleResult(out)
  /\ pc' = "returned"
  /\ UNCHANGED <<mode, data, delay_series, horizon_minutes, step_minutes, log,
                 subscribers, agents, calls, cur, t, i, runs, metrics, bias, ep,
                 history, config, sched>>

NextOpt ==
  \/ BuildScheduler
  \/ Optimize

SpecOpt == InitOpt /\ [][NextOpt]_vars

\* The same entry point with a solver that reports one of the statuses
\* OPTIMAL, FEASIBLE or other, for NARROW aircraft and NARROW gates
InitOptAny ==
  /\ InitOpt
  /\ \A f \in DOMAIN data.flights : data.flights[f].aircraft = "NARROW"
  /\ \A k \in DOMAIN data.gates : data.gates[k].compatible = "NARROW"

\* RunwayGateScheduler.optimize(flights, runways, gates, delay_minutes)
OptimizeAny ==
  /\ pc = "built"
  /\ \E out \in SolverOutcomesAny : result' = ScheduleResult(out)
  /\ pc' = "returned"
  /\ UNCHANGED <<mode, data, delay_series, horizon_minutes, step_minutes, log,
                 subscribers, agents, calls, cur, t, i, runs, metrics, bias, ep,
                 history, config, sched>>

\* the pipeline with any vector of predicted delays over the flights
InitOptDelay ==
  /\ mode = "opt"
  /\ pc = "init"
  /\ \E fl \in FlightRows(OptSchedSet), nr \in {0, OptRunways}, ng \in {0, MaxGates} :
       \E gt \in GateRows(ng) :
         /\ \A f \in DOMAIN fl : fl[f].aircraft = "NARROW"
         /\ \A k \in DOMAIN gt : gt[k].compatible = "NARROW"
         /\ data = [flights |-> fl, runways |-> [n \in 1..nr |-> n],
                    gates |-> gt, weather |-> <<0>>]
  /\ delay_series \in [1..NumFlights -> DelaySet]
  /\ horizon_minutes = 0
  /\ step_minutes = 5
  /\ config \in [time_slot_minutes : SlotMinSet,
                 runway_separation_minutes : SepMinSet,
                 gate_turnaround_minutes : TurnMinSet,
                 enable_runway_separation : BOOLEAN,
                 enable_gate_turnaround : BOOLEAN]
  /\ Idle

SpecOptDelay == InitOptDelay /\ [][NextOpt]_vars

NextOptAny ==
  \/ BuildScheduler
  \/ OptimizeAny

SpecOptAny == InitOptAny /\ [][NextOptAny]_vars

\* Either entry point
Init == InitSim \/ InitOpt

Next == NextSim \/ NextOpt

Spec == Init /\ [][Next]_vars

\* ================================================================== claims
\* helpers of the claims
SimMode == mode \in {"run", "learn"}

Returned == mode = "opt" /\ pc = "returned"

Solved == Returned /\ result.status \in {"Optimal", "Feasible"}

LogTypes(l) == [n \in DOMAIN l |-> l[n].type]

CountType(l, ty) == Cardinality({n \in DOMAIN l : l[n].type = ty})

\* the events a step added to the log
NewEvents == SubSeq(log', Len(log) + 1, Len(log'))

\* a step of FlightAgent.step that published one flight.request
RequestStep == pc = "flights" /\ i' = i + 1

\* C1: in the decentralized simulation with the default 5-minute tick, every
\* flight id holds at most one entry of each RunwayAgent occupancy map and at
\* most one entry of each GateAgent occupancy map.
C1_OneAssignmentPerFlight ==
  (SimMode /\ step_minutes = 5) =>
    \A a \in DOMAIN agents : \A f \in 1..NumFlights :
      /\ Cardinality({n \in DOMAIN agents[a].rocc : agents[a].rocc[n].val = f}) <= 1
      /\ Cardinality({n \in DOMAIN agents[a].gocc : agents[a].gocc[n].val = f}) <= 1

\* C2: capacity invariant for both solving paths.  Decentralized: every
\* assignment a RunwayAgent made holds its own (slot, runway) entry (as many
\* entries as decisions, keys pairwise distinct), and while one RunwayAgent
\* listens on the bus no two runway.assigned events of the log share
\* (runway, slot).  Centralized: no two rows of a returned runway table
\* share (runway, slot).
C2_Capacity ==
  /\ SimMode =>
       /\ \A a \in DOMAIN agents :
            /\ Len(agents[a].rocc) = agents[a].rdec
            /\ \A m, n \in DOMAIN agents[a].rocc :
                 agents[a].rocc[m].key = agents[a].rocc[n].key => m = n
       /\ Len(subscribers["flight.request"]) = 1 =>
            \A m, n \in DOMAIN log :
              (/\ log[m].type = "runway.assigned"
               /\ log[n].type = "runway.assigned"
               /\ log[m].runway_id = log[n].runway_id
               /\ log[m].slot = log[n].slot) => m = n
  /\ Returned =>
       \A m, n \in DOMAIN result.runway_assignments :
         (/\ result.runway_assignments[m].runway_id = result.runway_assignments[n].runway_id
          /\ result.runway_assignments[m].slot = result.runway_assignments[n].slot) => m = n

\* C2 witness: a RunwayAgent holding two assignments, one of them deferred
\* because its requested (slot, runway) pairs were taken
C2_Witness ==
  /\ SimMode
  /\ cur > 0
  /\ Len(agents[cur].rocc) >= 2
  /\ CountType(log, "runway.deferred") >= 1

\* the occupancy map after a greedy assignment for requested slot q: the
\* earliest slot of q, q+1, q+2 with a free identifier and, at that slot,
\* the first free identifier in list order; unchanged when none is free
C3_Expected(occ, rw, q, fid) ==
  LET freeSlots == {s \in q..(q + 2) : \E n \in DOMAIN rw : ~Has(occ, <<s, rw[n]>>)}
  IN IF freeSlots = {} THEN occ
     ELSE LET s == SetMin(freeSlots)
              n == SetMin({m \in DOMAIN rw : ~Has(occ, <<s, rw[m]>>)})
          IN Append(occ, [key |-> <<s, rw[n]>>, val |-> fid])

\* C3: on each flight.request with requested slot q = requested minute div
\* slot_minutes (the configured slot length), every listening RunwayAgent
\* assigns the earliest slot of q, q+1, q+2 that has a free runway (never a
\* slot before q) and, at that slot, the first runway in list order that is
\* free; with no free pair it assigns nothing.
C3_FirstFreePair ==
  [][RequestStep =>
       LET evt == log'[Len(log) + 1]
           q == evt.sched_min \div config.time_slot_minutes
       IN /\ evt.type = "flight.request"
          /\ \A a \in DOMAIN agents :
               /\ agents'[a].rocc = C3_Expected(agents[a].rocc, agents[a].runways, q, evt.flight_id)
               /\ \A n \in (Len(agents[a].rocc) + 1)..Len(agents'[a].rocc) :
                    agents'[a].rocc[n].key[1] >= q]_vars

\* the handler invocations of calls for the event at log position k
CallsOf(c, k) ==
  LET sel == SelectSeq(c, LAMBDA x : x.ev = k)
  IN [n \in DOMAIN sel |-> [fn |-> sel[n].fn, inst |-> sel[n].inst]]

\* a step that creates a new EventBus (run_with_learning's bus = EventBus())
NewBusStep == mode = "learn" /\ pc \in {"init", "episode"}

\* C4: publish(e) appends e to the log and then calls every handler
\* subscribed to e's kind, in subscription order, before returning; no other
\* handler is called for e; the log of a bus only grows at its end.
C4_PublishOrder ==
  [][~NewBusStep =>
       /\ Len(log') >= Len(log)
       /\ SubSeq(log', 1, Len(log)) = log
       /\ SubSeq(calls', 1, Len(calls)) = calls
       /\ LET fresh == SubSeq(calls', Len(calls) + 1, Len(calls'))
          IN /\ \A k \in (Len(log) + 1)..Len(log') :
                  CallsOf(fresh, k) = subscribers[log'[k].type]
             /\ \A n \in DOMAIN fresh :
                  fresh[n].ev > Len(log) /\ fresh[n].at >= fresh[n].ev]_vars

\* C4 witness: an event of a kind with two subscribed handlers was
\* published and both were called
C4_Witness ==
  /\ SimMode
  /\ \E k \in DOMAIN log :
       /\ log[k].type = "flight.request"
       /\ Len(CallsOf(calls, k)) = 2

\* C5: publishing is depth-first.  When a handler of the event at log
\* position k is called, every event logged after k so far has already had
\* its handlers called (the calls a step makes are compared; those of
\* earlier steps concern events logged before).  With one RunwayAgent, one GateAgent and one
\* FlightAgent on the bus, a flight.request granted a later slot with a free
\* gate adds exactly flight.request, runway.assigned, gate.assigned,
\* runway.deferred to the log, and the flight's bias is updated when the
\* publish call of FlightAgent.step returns.
C5_Deferred(a) ==
  LET row == Window(t)[i]
      q == ReqSched(row, agents[a]) \div 5
      rhit == FirstFree(agents[a].rocc, q, agents[a].runways)
  IN /\ rhit # << >>
     /\ rhit[1][1] > q
     /\ FirstFree(agents[a].gocc, rhit[1][1], agents[a].gates) # << >>

C5_DepthFirst ==
  [][/\ LET fresh == SubSeq(calls', Len(calls) + 1, Len(calls'))
        IN \A n \in DOMAIN fresh : \A m \in DOMAIN fresh :
             (fresh[m].ev > fresh[n].ev /\ fresh[m].ev <= fresh[n].at) => m < n
     /\ (RequestStep /\ Len(agents) = 1 /\ C5_Deferred(1)) =>
          LET f == Window(t)[i].flight_id
          IN /\ LogTypes(NewEvents) = <<"flight.request", "runway.assigned",
                                        "gate.assigned", "runway.deferred">>
             /\ \A n \in DOMAIN NewEvents : NewEvents[n].flight_id = f
             /\ f \in DOMAIN agents'[1].bias
             /\ agents'[1].bias[f]
                  = Get(agents[1].bias, f, 0) + 5 * NewEvents[4].delta_slots]_vars

\* C5 witness: a deferred request with a gate was handled by the only
\* agents on the bus, and its bias is in place
C5_Witness ==
  /\ SimMode
  /\ Len(agents) = 1
  /\ Len(log) >= 4
  /\ LogTypes(SubSeq(log, Len(log) - 3, Len(log)))
       = <<"flight.request", "runway.assigned", "gate.assigned", "runway.deferred">>
  /\ Get(agents[1].bias, log[Len(log)].flight_id, 0) > 0

\* rows of a table that belong to flight id f
RowsOf(table, f) == {n \in DOMAIN table : table[n].flight_id = f}

\* gate k accepts aircraft class a: same class, or a WIDE gate and a NARROW
\* aircraft
Accepts(k, a) == CompatGet(k) = a \/ (CompatGet(k) = "WIDE" /\ a = "NARROW")

HasCompatibleGate(f) ==
  \E k \in Range(GateList) : Accepts(k, data.flights[f].aircraft)

\* the separation and turnaround windows, from the configuration
SepWindow == Max2(1, config.runway_separation_minutes \div config.time_slot_minutes)

TurnWindow == Max2(1, config.gate_turnaround_minutes \div config.time_slot_minutes)

\* a runway plan: every flight on one runway at its requested slot moved by
\* -1, 0 or +1 (within the slot bounds), flights on the same runway at
\* different slots, more than the separation window apart when separation
\* is enforced
RunwayPlanExists ==
  \E plan \in [FlightIdx -> Range(RwyList) \X {-1, 0, 1}] :
    LET slotOf(f) == FlightSlot(f) + plan[f][2]
    IN /\ \A f \in FlightIdx : slotOf(f) >= MinSlot /\ slotOf(f) <= MaxSlot
       /\ \A f, g \in FlightIdx :
            (f # g /\ plan[f][1] = plan[g][1]) =>
              /\ slotOf(f) # slotOf(g)
              /\ config.enable_runway_separation =>
                   Abs(slotOf(f) - slotOf(g)) > SepWindow

\* a gate plan: every flight at one gate, a compatible one if the flight
\* has any, flights at the same gate requested at different slots, more
\* than the turnaround window apart when turnaround is enforced
GatePlanExists ==
  \E plan \in [FlightIdx -> Range(GateList)] :
    /\ \A f \in FlightIdx :
         HasCompatibleGate(f) => Accepts(plan[f], data.flights[f].aircraft)
    /\ \A f, g \in FlightIdx :
         (f # g /\ plan[f] = plan[g]) =>
           /\ FlightSlot(f) # FlightSlot(g)
           /\ config.enable_gate_turnaround =>
                Abs(FlightSlot(f) - FlightSlot(g)) > TurnWindow

\* C6: whenever optimize reports Optimal or Feasible, the runway table and
\* the gate table each hold exactly one row per input flight.
C6_OneRowPerFlight ==
  Solved =>
    /\ Len(result.runway_assignments) = Len(data.flights)
    /\ Len(result.gate_assignments) = Len(data.flights)
    /\ \A f \in FlightIdx :
         /\ Cardinality(RowsOf(result.runway_assignments, data.flights[f].flight_id)) = 1
         /\ Cardinality(RowsOf(result.gate_assignments, data.flights[f].flight_id)) = 1

\* C6 witness: a solved instance in which two flights request the same slot
C6_Witness ==
  /\ Solved
  /\ \E f, g \in FlightIdx : f # g /\ FlightSlot(f) = FlightSlot(g)
  /\ Len(result.runway_assignments) >= 2

\* C7: with separation enforced and window W = max(1, separation_minutes
\* div slot_minutes), two distinct rows of a returned runway table on the
\* same runway are at least W slots apart.
C7_Separation ==
  (Returned /\ config.enable_runway_separation) =>
    \A m, n \in DOMAIN result.runway_assignments :
      (m # n /\ result.runway_assignments[m].runway_id = result.runway_assignments[n].runway_id)
        => Abs(result.runway_assignments[m].slot - result.runway_assignments[n].slot)
             >= SepWindow

\* C7 witness: separation enforced with a window of 2 slots, two flights
\* requested 2 slots apart and assigned to the same runway, so that one of
\* them had to be moved
C7_Witness ==
  /\ Solved
  /\ config.enable_runway_separation
  /\ SepWindow = 2
  /\ \E f, g \in FlightIdx : Abs(FlightSlot(f) - FlightSlot(g)) = 2
  /\ \E m, n \in DOMAIN result.runway_assignments :
       m # n /\ result.runway_assignments[m].runway_id = result.runway_assignments[n].runway_id

\* C8: every flight that has a compatible gate in the gate list is assigned
\* a gate that accepts its aircraft class.
C8_GateCompatible ==
  Solved =>
    \A f \in FlightIdx : HasCompatibleGate(f) =>
      \A n \in RowsOf(result.gate_assignments, data.flights[f].flight_id) :
        Accepts(result.gate_assignments[n].gate_id, data.flights[f].aircraft)

\* C8 witness: a WIDE aircraft, a gate list with a NARROW and a WIDE gate,
\* and the aircraft at the WIDE gate
C8_Witness ==
  /\ Solved
  /\ \E k \in Range(GateList) : CompatGet(k) = "NARROW"
  /\ \E f \in FlightIdx : \E n \in DOMAIN result.gate_assignments :
       /\ data.flights[f].aircraft = "WIDE"
       /\ result.gate_assignments[n].flight_id = data.flights[f].flight_id
       /\ CompatGet(result.gate_assignments[n].gate_id) = "WIDE"

\* C9: when the model is not solved to Optimal/Feasible, optimize returns
\* empty runway, gate and conflict tables, an infinite objective and the
\* solver's status string.
C9_Infeasible ==
  (Returned /\ ~Solved) =>
    /\ result.runway_assignments = << >>
    /\ result.gate_assignments = << >>
    /\ result.taxiway_conflicts = {}
    /\ result.objective_value.inf
    /\ result.status = "Infeasible"

\* C9 witness: a returned result for flights that have a gate plan but
\* compete for runway slots they cannot all get
C9_Witness ==
  /\ Returned
  /\ ~Solved
  /\ GatePlanExists
  /\ ~RunwayPlanExists

\* C10: a flight with no compatible gate may take any gate, flights with a
\* compatible gate stay restricted, and the model is solved exactly when
\* the runways can be planned and the gates can be planned under that
\* rule: the lack of a compatible gate alone never makes it infeasible.
C10_Fallback ==
  /\ Returned => (Solved <=> (RunwayPlanExists /\ GatePlanExists))
  /\ Solved =>
       \A f \in FlightIdx :
         \A n \in RowsOf(result.gate_assignments, data.flights[f].flight_id) :
           IF HasCompatibleGate(f)
             THEN Accepts(result.gate_assignments[n].gate_id, data.flights[f].aircraft)
             ELSE result.gate_assignments[n].gate_id \in Range(GateList)
  /\ Solved =>
       \A f \in FlightIdx : ~HasCompatibleGate(f) =>
         RowsOf(result.gate_assignments, data.flights[f].flight_id) # {}

\* C10 witness: a solved instance where one flight has no compatible gate
\* and holds a gate, and another flight has a compatible gate
C10_Witness ==
  /\ Solved
  /\ \E f, g \in FlightIdx :
       /\ ~HasCompatibleGate(f)
       /\ RowsOf(result.gate_assignments, data.flights[f].flight_id) # {}
       /\ HasCompatibleGate(g)

\* the ticks of the loop range(0, horizon_minutes, step_minutes)
Ticks == {k * step_minutes : k \in 0..((horizon_minutes - 1) \div step_minutes)}

\* C11: after a single Simulation.run on a new Simulation, the log holds a
\* weather.update for every tick, and the number of events equals the number
\* of weather.update events plus the decision counters of FlightAgent,
\* RunwayAgent and GateAgent.
C11_EventCount ==
  (mode = "run" /\ pc = "done" /\ runs = 1) =>
    /\ \A tick \in Ticks :
         \E n \in DOMAIN log : log[n].type = "weather.update" /\ log[n].time_min = tick
    /\ metrics.num_events
         = CountType(log, "weather.update") + metrics.decisions["FlightAgent"]
             + metrics.decisions["RunwayAgent"] + metrics.decisions["GateAgent"]

\* pointwise order of bias maps: every key of a is a key of b, with a value
\* at least as large
BiasLeq(a, b) == \A f \in DOMAIN a : f \in DOMAIN b /\ a[f] <= b[f]

\* C12: in run_with_learning the carried bias map only grows pointwise.  The
\* FlightAgent of an episode is seeded with the carried map, its bias only
\* grows during the episode, and the merge leaves the carried map equal to
\* the agent's final bias on the agent's keys and nowhere lower than before.
C12_BiasMonotone ==
  [][mode = "learn" =>
       /\ BiasLeq(bias, bias')
       /\ pc \in {"init", "episode"} => agents'[1].bias = bias
       /\ pc \in {"weather", "flights"} => BiasLeq(agents[1].bias, agents'[1].bias)
       /\ pc = "merge" =>
            /\ BiasLeq(bias, agents[1].bias)
            /\ BiasLeq(agents[1].bias, bias')
            /\ \A f \in DOMAIN agents[1].bias : bias'[f] = agents[1].bias[f]]_vars

\* C12 witness: at the end of a later episode a flight that was seeded with
\* a positive bias has been deferred again
C12_Witness ==
  /\ mode = "learn"
  /\ pc = "merge"
  /\ ep >= 1
  /\ \E f \in DOMAIN bias : bias[f] > 0 /\ agents[1].bias[f] > bias[f]

\* every (slot, id) pair of the slots q, q+1, q+2 is in the occupancy map
WindowFull(occ, ids, q) ==
  \A s \in q..(q + 2) : \A n \in DOMAIN ids : Has(occ, <<s, ids[n]>>)

\* C13: congestion overflow.  A RunwayAgent whose (slot, runway) pairs for
\* the slots q, q+1, q+2 of a flight.request are all occupied keeps its
\* occupancy map and its decision counter; when that is so for every
\* RunwayAgent on the bus, the step adds the flight.request alone to the log
\* and changes nothing but the FlightAgent's decision counter: no occupancy
\* map, no other counter, no bias.
C13_Overflow ==
  [][RequestStep =>
       LET evt == log'[Len(log) + 1]
           q == evt.sched_min \div 5
       IN /\ \A a \in DOMAIN agents :
               WindowFull(agents[a].rocc, agents[a].runways, q) =>
                 /\ agents'[a].rocc = agents[a].rocc
                 /\ agents'[a].rdec = agents[a].rdec
          /\ (\A a \in DOMAIN agents :
               WindowFull(agents[a].rocc, agents[a].runways, q)) =>
                 /\ NewEvents = <<evt>>
                 /\ evt.type = "flight.request"
                 /\ agents' = [agents EXCEPT ![cur].fdec = @ + 1]]_vars

\* C13 witness: the last event of the log is a flight.request that the only
\* RunwayAgent, with a runway, dropped because its three slots were taken
C13_Witness ==
  /\ SimMode
  /\ Len(agents) = 1
  /\ Len(agents[1].runways) >= 1
  /\ Len(log) >= 1
  /\ log[Len(log)].type = "flight.request"
  /\ WindowFull(agents[1].rocc, agents[1].runways, log[Len(log)].sched_min \div 5)

\* C14: an empty runway list or an empty gate list is replaced by the one
\* default identifier (1 here), so flights are still assigned.  Centralized:
\* a solved instance has its rows on the default runway and the default
\* gate.  Decentralized: with no gates every gate.assigned names the default
\* gate, and with no runways the requests published so far include one that
\* was given a slot on the default runway.
C14_DefaultIds ==
  /\ Solved =>
       /\ Len(data.runways) = 0 =>
            /\ Len(result.runway_assignments) = Len(data.flights)
            /\ \A n \in DOMAIN result.runway_assignments :
                 result.runway_assignments[n].runway_id = 1
       /\ Len(data.gates) = 0 =>
            /\ Len(result.gate_assignments) = Len(data.flights)
            /\ \A n \in DOMAIN result.gate_assignments :
                 result.gate_assignments[n].gate_id = 1
  /\ SimMode =>
       /\ Len(data.gates) = 0 =>
            /\ \A a \in DOMAIN agents : agents[a].gates = <<1>>
            /\ \A n \in DOMAIN log :
                 log[n].type = "gate.assigned" => log[n].gate_id = 1
            /\ CountType(log, "runway.assigned") >= 1
                 => CountType(log, "gate.assigned") >= 1
       /\ (Len(data.runways) = 0 /\ CountType(log, "flight.request") >= 1) =>
            \E n \in DOMAIN log :
              log[n].type = "runway.assigned" /\ log[n].runway_id = 1

\* the positions of the events of kind ty in the sequence l
Positions(l, ty) == {n \in DOMAIN l : l[n].type = ty}

\* C15: runway.deferred is published exactly for the assignments whose slot
\* is later than the requested slot q.  In the events of one request, every
\* runway.deferred follows a runway.assigned of the same flight (the closest
\* one before it) and carries delta_slots = that slot - q, which is 1 or 2;
\* a runway.assigned at slot q has no runway.deferred before the next
\* runway.assigned, one at a later slot has exactly one; there are as many
\* runway.deferred as RunwayAgents that took a later slot, hence none for a
\* dropped request; no other step publishes runway.deferred.
C15_DeferredIff ==
  [][IF RequestStep
       THEN LET E == NewEvents
                q == E[1].sched_min \div 5
                A == Positions(E, "runway.assigned")
                D == Positions(E, "runway.deferred")
                owner(d) == SetMax({a \in A : a < d})
                later == {a \in DOMAIN agents :
                            /\ Len(agents'[a].rocc) = Len(agents[a].rocc) + 1
                            /\ agents'[a].rocc[Len(agents'[a].rocc)].key[1] > q}
            IN /\ \A d \in D :
                    /\ \E a \in A : a < d
                    /\ E[owner(d)].flight_id = E[d].flight_id
                    /\ E[d].flight_id = E[1].flight_id
                    /\ E[d].delta_slots = E[owner(d)].slot - q
                    /\ E[d].delta_slots \in {1, 2}
               /\ \A a \in A :
                    Cardinality({d \in D : owner(d) = a}) = IF E[a].slot > q THEN 1 ELSE 0
               /\ Cardinality(D) = Cardinality(later)
       ELSE Positions(NewEvents, "runway.deferred") = {}]_vars

\* C15 witness: the log holds a deferral by one slot, a deferral by two
\* slots, and an assignment at the requested slot (followed by no deferral)
C15_Witness ==
  /\ SimMode
  /\ \E d \in Positions(log, "runway.deferred") : log[d].delta_slots = 1
  /\ \E d \in Positions(log, "runway.deferred") : log[d].delta_slots = 2
  /\ \E a \in Positions(log, "runway.assigned") :
       /\ log[a - 1].type = "flight.request"
       /\ log[a].slot = log[a - 1].sched_min \div 5
       /\ \A n \in (a + 1)..Len(log) :
            log[n].type = "runway.deferred" =>
              \E m \in (a + 1)..n : log[m].type = "runway.assigned"

\* the sum of delta_slots over the runway.deferred events of flight f in the
\* sequence of events E
RECURSIVE SumDeltas(_, _)
SumDeltas(E, f) ==
  IF E = << >> THEN 0
  ELSE (IF E[1].type = "runway.deferred" /\ E[1].flight_id = f
          THEN E[1].delta_slots ELSE 0)
       + SumDeltas(Tail(E), f)

\* C16: every runway.deferred event for flight f with delta_slots = d adds
\* d * slot_minutes * 0.5 minutes (d * slot_minutes half minutes) to f's
\* bias in every FlightAgent on the bus, slot_minutes being the configured
\* slot length, and leaves the other flights' biases as they were.
C16_BiasStep ==
  [][(SimMode /\ pc \in {"weather", "flights"}) =>
       \A a \in DOMAIN agents : \A f \in 1..NumFlights :
         Get(agents'[a].bias, f, 0)
           = Get(agents[a].bias, f, 0)
               + SumDeltas(NewEvents, f) * config.time_slot_minutes]_vars

\* C17: the requested minute of every flight.request is
\* max(0, floor(scheduled minute + predicted delay + bias + weather extra)):
\* the terms are summed and the sum is rounded down once.  In half minutes
\* the sum is 2 * sched_min + delay + bias + 2 * wx, and its floor in
\* minutes is that number div 2.
C17_RequestedMinute ==
  [][RequestStep =>
       LET row == Window(t)[i]
           me == agents[cur]
           halves == 2 * row.sched_min + Get(delay_series, row.flight_id, 0)
                       + Get(me.bias, row.flight_id, 0) + 2 * me.wx
           evt == log'[Len(log) + 1]
       IN /\ evt.type = "flight.request"
          /\ evt.flight_id = row.flight_id
          /\ evt.sched_min = Max2(0, halves \div 2)]_vars

\* the position of the last weather.update of the sequence l before
\* position n (0 when there is none)
LastWeather(l, n) ==
  LET W == {k \in Positions(l, "weather.update") : k < n}
  IN IF W = {} THEN 0 ELSE SetMax(W)

\* C18: at every tick the weather.update is published and handled before
\* the flight.requests of the tick, and the weather extra of a request
\* depends on that weather.update alone.  For every flight.request step at
\* tick t: the last weather.update of the log is the one of tick t, the
\* FlightAgent's on_weather has been called for it, the extra delay in force
\* is 2 if it reports rain and 0 otherwise, and the requested minute is
\* computed with that extra; every flight.request of the log follows the
\* weather.update of its own tick with no other weather.update in between.
C18_WeatherFirst ==
  [][RequestStep =>
       LET k == LastWeather(log, Len(log) + 1)
           row == Window(t)[i]
           me == agents[cur]
           evt == log'[Len(log) + 1]
       IN /\ k > 0
          /\ log[k].time_min = t
          /\ \E c \in DOMAIN calls :
               calls[c].fn = "on_weather" /\ calls[c].inst = cur /\ calls[c].ev = k
          /\ me.wx = IF log[k].rain = 1 THEN 2 ELSE 0
          /\ evt.sched_min
               = Max2(0, row.sched_min + IntOf(Get(delay_series, row.flight_id, 0))
                           + IntOf(Get(me.bias, row.flight_id, 0))
                           + (IF log[k].rain = 1 THEN 2 ELSE 0))
          /\ \A n \in Positions(log', "flight.request") :
               /\ LastWeather(log', n) > 0
               /\ log'[LastWeather(log', n)].time_min = log'[n].time_min]_vars

\* C18 witness: it rained at an earlier tick, the weather.update of the
\* current tick reports no rain, and a flight.request follows it
C18_Witness ==
  /\ SimMode
  /\ \E k \in Positions(log, "weather.update") :
       /\ log[k].rain = 0
       /\ k < Len(log)
       /\ log[k + 1].type = "flight.request"
       /\ LastWeather(log, k) > 0
       /\ log[LastWeather(log, k)].rain = 1
       /\ log[LastWeather(log, k)].time_min < log[k].time_min

\* the gate occupancy map after a GateAgent with gate list ids has handled,
\* in order, the runway.assigned events of the sequence E
RECURSIVE GateFold(_, _, _)
GateFold(occ, ids, E) ==
  IF E = << >> THEN occ
  ELSE GateFold(IF E[1].type = "runway.assigned"
                  THEN C3_Expected(occ, ids, E[1].slot, E[1].flight_id)
                  ELSE occ,
                ids, Tail(E))

\* C19: on each runway.assigned event with slot s every GateAgent takes the
\* first free (slot, gate) pair in the order s, s+1, s+2 and, inside a slot,
\* gates in list order, whatever the aircraft and the gate's class, and
\* publishes one gate.assigned for it; with every pair of the window taken it
\* publishes nothing and changes nothing.  Entries of the gate occupancy map
\* are never overwritten and no (slot, gate) pair is held twice.
C19_GateGreedy ==
  [][(SimMode /\ pc \in {"weather", "flights"}) =>
       LET grown == UNION {{<<a, n>> : n \in (Len(agents[a].gocc) + 1)..Len(agents'[a].gocc)} :
                             a \in DOMAIN agents}
           G == Positions(NewEvents, "gate.assigned")
       IN /\ \A a \in DOMAIN agents :
               /\ agents'[a].gocc = GateFold(agents[a].gocc, agents[a].gates, NewEvents)
               /\ SubSeq(agents'[a].gocc, 1, Len(agents[a].gocc)) = agents[a].gocc
               /\ agents'[a].gdec - agents[a].gdec
                    = Len(agents'[a].gocc) - Len(agents[a].gocc)
               /\ \A m, n \in DOMAIN agents'[a].gocc :
                    agents'[a].gocc[m].key = agents'[a].gocc[n].key => m = n
          /\ Cardinality(G) = Cardinality(grown)
          /\ \A e \in G : \E p \in grown :
               agents'[p[1]].gocc[p[2]]
                 = [key |-> <<NewEvents[e].slot, NewEvents[e].gate_id>>,
                    val |-> NewEvents[e].flight_id]
          /\ Len(agents) = 1 =>
               \A e \in DOMAIN NewEvents :
                 NewEvents[e].type = "runway.assigned" =>
                   IF WindowFull(agents[1].gocc, agents[1].gates, NewEvents[e].slot)
                     THEN G = {}
                     ELSE G = {e + 1}]_vars

\* C19 witness: the WIDE aircraft holds a gate of the NARROW class, the
\* second gate of the list is in use, and a flight was given a gate at a
\* slot after its runway slot
C19_Witness ==
  /\ SimMode
  /\ Len(data.gates) = 2
  /\ \E a \in DOMAIN agents :
       /\ \E n \in DOMAIN agents[a].gocc :
            /\ data.flights[agents[a].gocc[n].val].aircraft = "WIDE"
            /\ CompatGet(agents[a].gocc[n].key[2]) = "NARROW"
       /\ \E n \in DOMAIN agents[a].gocc : agents[a].gocc[n].key[2] = agents[a].gates[2]
  /\ \E k \in Positions(log, "runway.assigned") :
       /\ k < Len(log)
       /\ log[k + 1].type = "gate.assigned"
       /\ log[k + 1].slot > log[k].slot

\* the gate of flight f in the returned gate table
GateOf(f) ==
  LET rows == RowsOf(result.gate_assignments, data.flights[f].flight_id)
  IN result.gate_assignments[CHOOSE n \in rows : TRUE].gate_id

\* C20: gate capacity and turnaround are in force exactly when turnaround
\* enforcement is enabled.  Enabled, with window T: two distinct flights
\* whose requested slots are equal or differ by at most T never get the
\* same gate.  Disabled: one (compatible) gate per flight is the only gate
\* constraint, so flights outnumbering the gates at one requested slot do
\* not make the model infeasible: it is solved whenever the runways can be
\* planned.
C20_GateConstraints ==
  /\ (Solved /\ config.enable_gate_turnaround) =>
       \A f, g \in FlightIdx :
         (f # g /\ Abs(FlightSlot(f) - FlightSlot(g)) <= TurnWindow) =>
           GateOf(f) # GateOf(g)
  /\ (Returned /\ ~config.enable_gate_turnaround) =>
       (Solved <=> RunwayPlanExists)

\* the requested slot of flight f, from the configuration
RequestedSlot(f) == data.flights[f].sched_min \div config.time_slot_minutes

\* C21: every row of a returned runway table puts its flight at its
\* requested slot (scheduled minute div slot_minutes) or one slot before or
\* after it, inside [min_slot, max_slot] (the smallest requested slot minus
\* one, not below 0, to the largest plus one), and at no negative slot.
C21_CandidateSlots ==
  Returned =>
    \A n \in DOMAIN result.runway_assignments :
      \E f \in FlightIdx :
        LET slot == result.runway_assignments[n].slot
            lo == Max2(0, SetMin({RequestedSlot(g) : g \in FlightIdx}) - 1)
            hi == SetMax({RequestedSlot(g) : g \in FlightIdx}) + 1
        IN /\ data.flights[f].flight_id = result.runway_assignments[n].flight_id
           /\ slot - RequestedSlot(f) \in {-1, 0, 1}
           /\ slot >= lo
           /\ slot <= hi
           /\ slot >= 0

\* C21 witness: two flights requested at slot 0 on the same runway, so one
\* of them is moved, and it is moved to slot 1
C21_Witness ==
  /\ Solved
  /\ \A f \in FlightIdx : RequestedSlot(f) = 0
  /\ \E m, n \in DOMAIN result.runway_assignments :
       /\ result.runway_assignments[m].runway_id = result.runway_assignments[n].runway_id
       /\ result.runway_assignments[m].slot = 0
       /\ result.runway_assignments[n].slot = 1

C23_MergeOverwrites ==
  [][mode = "learn" =>
       IF pc = "merge"
         THEN /\ DOMAIN bias' = (DOMAIN bias) \cup (DOMAIN agents[1].bias)
              /\ \A f \in DOMAIN agents[1].bias :
                   /\ bias'[f] = agents[1].bias[f]
                   /\ bias'[f] = Get(bias, f, 0) + 5 * SumDeltas(log, f)
              /\ \A f \in (DOMAIN bias) \ (DOMAIN agents[1].bias) : bias'[f] = bias[f]
         ELSE bias' = bias]_vars

\* C23 witness: after the merge of a later episode, a flight seeded with a
\* positive bias and deferred again in that episode carries seed plus
\* increments
C23_Witness ==
  /\ mode = "learn"
  /\ pc = "episode"
  /\ ep >= 2
  /\ \E f \in DOMAIN bias :
       /\ SumDeltas(log, f) > 0
       /\ bias[f] > 5 * SumDeltas(log, f)
       /\ bias[f] = agents[1].bias[f]

\* the counters, occupancy maps and log of one agent set agree
CountersAgree(me, l) ==
  /\ me.fdec = CountType(l, "flight.request")
  /\ me.rdec = CountType(l, "runway.assigned")
  /\ me.rdec = Len(me.rocc)
  /\ me.gdec = CountType(l, "gate.assigned")
  /\ me.gdec = Len(me.gocc)
  /\ CountType(l, "gate.assigned") <= CountType(l, "runway.assigned")
  /\ CountType(l, "runway.assigned") <= CountType(l, "flight.request")
  /\ CountType(l, "runway.deferred") <= CountType(l, "runway.assigned")

\* C24: in every reachable state of the decentralized path the running
\* agents' decision counters equal the number of events of their kind in
\* the log and the size of their occupancy maps, with gate.assigned <=
\* runway.assigned <= flight.request and runway.deferred <= runway.assigned.
C24_CountersMatchLog ==
  (SimMode /\ cur \in DOMAIN agents) => CountersAgree(agents[cur], log)

\* C24 restricted to the states before a second call of Simulation.run
C24_FirstRunOnly ==
  (SimMode /\ cur \in DOMAIN agents /\ runs <= 1) => CountersAgree(agents[cur], log)

\* C25: Simulation.run reports only the run it performed: a second call on
\* the same Simulation object, with the same configuration and arguments,
\* returns the num_events, decision counters and assignment table that the
\* first call returned.
C25_RunIsolation ==
  [][(mode = "run" /\ pc = "aggregate" /\ runs >= 2) => metrics' = metrics]_vars

\* total slot displacement of the x-variables at 1
RECURSIVE Displacement(_)
Displacement(X) ==
  IF X = {} THEN 0
  ELSE LET v == CHOOSE w \in X : TRUE
       IN Abs(v[3] - FlightSlot(v[1])) + Displacement(X \ {v})

\* sum over the flights 1..n of the predicted delay (in half minutes, which
\* is delay / 10 in twentieths)
RECURSIVE DelaySum(_)
DelaySum(n) ==
  IF n = 0 THEN 0
  ELSE Get(delay_series, data.flights[n].flight_id, 0) + DelaySum(n - 1)

\* total slot displacement of the returned runway rows
RECURSIVE RowsDisplacement(_)
RowsDisplacement(n) ==
  IF n = 0 THEN 0
  ELSE LET row == result.runway_assignments[n]
           f == CHOOSE g \in FlightIdx : data.flights[g].flight_id = row.flight_id
       IN Abs(row.slot - FlightSlot(f)) + RowsDisplacement(n - 1)

\* C26: the predicted-delay term adds the same constant (sum over flights of
\* delay / 10) to every feasible solution: the objective of a feasible
\* solution is its total slot displacement plus that constant, the optimal
\* runway assignments are the feasible ones of least displacement whatever
\* the delays are, and the objective returned is the displacement of the
\* returned rows plus the constant.
C26_ObjectiveStructure ==
  /\ (mode = "opt" /\ pc = "built") =>
       LET xf == XFeasible
           least == {X \in xf : \A Y \in xf : Displacement(X) <= Displacement(Y)}
       IN /\ \A X \in xf : Objective(X) = 20 * Displacement(X) + DelaySum(Len(data.flights))
          /\ \A out \in SolverOutcomes : out.status = 1 => out.X \in least
          /\ GFeasible # {} => \A X \in least : \E out \in SolverOutcomes : out.status = 1 /\ out.X = X
  /\ (Returned /\ result.status = "Optimal") =>
       result.objective_value.x20 =
         20 * RowsDisplacement(Len(result.runway_assignments)) + DelaySum(Len(data.flights))

\* C26 witness: an optimal schedule that had to move a flight off its slot,
\* with predicted delays that do not sum to zero
C26_Witness ==
  /\ Returned
  /\ result.status = "Optimal"
  /\ RowsDisplacement(Len(result.runway_assignments)) > 0
  /\ DelaySum(Len(data.flights)) # 0
  /\ \E f, g \in DOMAIN delay_series : delay_series[f] # delay_series[g]

====
